---- MODULE Spec2Model ----
(***************************************************************************)
(* Per-frame locomotion of the tutorial VR scenes (movement.js,            *)
(* terrain.js, collision.js, proximity.js) and of the city scene           *)
(* (world.js).  Spec is the frames of the tutorial scenes; FullSpec adds   *)
(* the city scene and what runs between frames (load callbacks, resize     *)
(* handler, timer); CitySpec is the city scene with its load callbacks;    *)
(* TsunamiSpec is one run of the tsunami under fair delivery of frames;    *)
(* ProbeSpec applies the downward probe of terrain.js to positions of its  *)
(* own.                                                                    *)
(*                                                                         *)
(* Numbers are fixed point: 1.0 is SCALE.  Thumbstick axes, unit vectors,  *)
(* positions and heights all use that scale; quaternion components use     *)
(* QSCALE.  A division rounds down, the fixed-point counterpart of the     *)
(* rounding of the floating-point operation it models.                     *)
(*                                                                         *)
(* One call of animate() is modelled as animateBegin, one step per input   *)
(* source the forEach callback is invoked with, and the scene's ...End     *)
(* step (the code after the forEach).  While pc # "idle" nothing but the   *)
(* current frame can take a step, so a frame is never interleaved.         *)
(***************************************************************************)
EXTENDS Integers, Sequences, FiniteSets, TLC

VARIABLES
    scene,        \* which scene script is loaded
    pc,           \* "idle" between frames, "forEach" inside animate()
    frame,        \* number of completed frames
    isPresenting, \* renderer.xr.isPresenting as the current frame reads it
    quat,         \* camera.quaternion as the current frame reads it
    pending,      \* input sources the forEach has still to visit
    rig,          \* cameraRig.position
    currentY,     \* terrain.js: currentY
    isNearCube,   \* proximity.js: isNearCube
    cubeColor,    \* proximity.js: proximityCube.material.color
    cubeScale,    \* proximity.js: proximityCube.scale (the same on all axes)
    stick,        \* thumbstickX, thumbstickY of the latest callback invocation
    moveDir,      \* moveDir of the latest callback invocation
    probe,        \* the ray cast by the latest callback invocation
    steps,        \* callback invocations of the latest frame that went on to move
    moves,        \* the same, counted over the whole run
    prev,         \* currentY and rig.y when the latest frame began
    snap,         \* what the latest call of terrainFollowing found and did
    snaps,        \* calls of terrainFollowing so far
    kind,         \* what the latest callback invocation was given
    painted,      \* calls of color.setHex in the latest frame
    viewport,     \* the window size camera.aspect and the renderer were set to
    cityModel,        \* world.js: cityModel, and how its load stands
    audioBuffer,      \* world.js: footstepSound.buffer, and how its load stands
    logged,           \* world.js: the position the timer logged last
    tsunamiActive,    \* world.js: tsunamiActive
    waterVisible,     \* world.js: tsunamiWater.visible
    waterLevel,       \* world.js: waterLevel
    waterY,           \* world.js: tsunamiWater.position.y
    triggerPressed,   \* world.js: triggerPressed
    isWalking,        \* world.js: isWalking
    isPlaying,        \* world.js: footstepSound.isPlaying
    lastFootstepTime, \* world.js: lastFootstepTime
    now,              \* world.js: Date.now() as the current frame reads it
    movingThisFrame   \* world.js: movingThisFrame of the current frame

vars == <<scene, pc, frame, isPresenting, quat, pending, rig, currentY,
          isNearCube, cubeColor, cubeScale, stick, moveDir, probe, steps, moves, prev,
          snap, snaps, kind, painted, viewport, cityModel, audioBuffer,
          logged, tsunamiActive, waterVisible, waterLevel, waterY,
          triggerPressed, isWalking, isPlaying, lastFootstepTime, now,
          movingThisFrame>>

\* the state of world.js
cityVars == <<cityModel, audioBuffer, logged, tsunamiActive, waterVisible,
              waterLevel, waterY, triggerPressed, isWalking, isPlaying,
              lastFootstepTime, now, movingThisFrame>>

----------------------------------------------------------------------------
(* Bounds of the model *)

MaxFrames == 3
MaxSources == 2
MaxMoves == 3
MaxCityFrames == 2
MaxTsunamiFrames == 670

----------------------------------------------------------------------------
(* Fixed-point arithmetic *)

SCALE == 10 * 100
QSCALE == 1 + 1

Abs(n) == IF n < 0 THEN -n ELSE n

RECURSIVE SqrtSearch(_, _, _)
SqrtSearch(n, lo, hi) ==
    IF lo >= hi THEN lo
    ELSE LET mid == (lo + hi + 1) \div 2
         IN IF mid * mid <= n THEN SqrtSearch(n, mid, hi)
            ELSE SqrtSearch(n, lo, mid - 1)

\* Math.sqrt, rounded down
Sqrt(n) == SqrtSearch(n, 0, 46 * SCALE)

Vec(x, y, z) == [x |-> x, y |-> y, z |-> z]

\* THREE.Vector3.applyQuaternion
applyQuaternion(v, q) ==
    LET tx == 2 * (q.y * v.z - q.z * v.y)
        ty == 2 * (q.z * v.x - q.x * v.z)
        tz == 2 * (q.x * v.y - q.y * v.x)
        qq == QSCALE * QSCALE
    IN Vec(v.x + (q.w * tx + q.y * tz - q.z * ty) \div qq,
           v.y + (q.w * ty + q.z * tx - q.x * tz) \div qq,
           v.z + (q.w * tz + q.x * ty - q.y * tx) \div qq)

\* THREE.Vector3.length
length(v) == Sqrt(v.x * v.x + v.y * v.y + v.z * v.z)

\* THREE.Vector3.normalize: divideScalar(this.length() || 1)
normalize(v) ==
    LET len == length(v)
        by == IF len = 0 THEN SCALE ELSE len
    IN Vec((v.x * SCALE) \div by, (v.y * SCALE) \div by, (v.z * SCALE) \div by)

\* THREE.Vector3.addScaledVector
addScaledVector(p, v, s) ==
    Vec(p.x + (v.x * s) \div SCALE, p.y + (v.y * s) \div SCALE,
        p.z + (v.z * s) \div SCALE)

\* THREE.MathUtils.lerp(x, y, t) = (1 - t) * x + t * y
lerp(x, y, t) == ((SCALE - t) * x + t * y) \div SCALE

----------------------------------------------------------------------------
(* Program constants *)

deadzone == 150
moveSpeed == 50
\* a smoothing factor past 1, which overshoots the target
interpolationOvershoot == 1000 + 500
interpolationFactor == 200
eyeHeight == 1600
rayLift == 5000
rayFar == 20000
collisionDistance == 1000
collisionLift == 500
proximityDistance == 4000
pulseDepth == 200

----------------------------------------------------------------------------
(* Scene geometry *)

\* An axis-aligned mesh: centre (cx, cy, cz), size (w, h, d)
Box(cx, cy, cz, w, h, d) ==
    [xmin |-> cx - w \div 2, xmax |-> cx + w \div 2,
     ymin |-> cy - h \div 2, ymax |-> cy + h \div 2,
     zmin |-> cz - d \div 2, zmax |-> cz + d \div 2]

\* terrain.js init(): the floor plane and the eight steps
terrainMeshes ==
    <<Box(0, 0, 0, 30 * SCALE, 0, 30 * SCALE)>> \o
    [i \in 1..8 |-> Box(0, (i - 1) * 200 + 100, -5000 - (i - 1) * 1500,
                        4 * SCALE, 200, 1500)]

\* collision.js createObstacles()
collidables ==
    <<Box(2000, 1000, -1000, SCALE, 2 * SCALE, SCALE),
      Box(-2000, 1000, 1000, SCALE, 2 * SCALE, SCALE),
      Box(0, 1000, -5000, SCALE, 2 * SCALE, SCALE)>>

\* proximity.js init(): proximityCube.position
cubePosition == Vec(0, 500, -5000)

GREEN == "0x00ff00"
RED == "0xff0000"

----------------------------------------------------------------------------
(* THREE.Raycaster against axis-aligned meshes.  A ray is origin o and      *)
(* direction d (a unit vector or zero, scaled by SCALE); the point at       *)
(* distance t is o + t * d / SCALE.  Materials are front-sided, so a mesh   *)
(* is hit where the ray enters it.  A bound on t along one axis is the      *)
(* fraction n / m (m > 0) standing for t = n * SCALE / m.                   *)

Axes == {"x", "y", "z"}
boxLo(b, a) == IF a = "x" THEN b.xmin ELSE IF a = "y" THEN b.ymin ELSE b.zmin
boxHi(b, a) == IF a = "x" THEN b.xmax ELSE IF a = "y" THEN b.ymax ELSE b.zmax

enter(o, d, b, a) ==
    [n |-> IF d[a] > 0 THEN boxLo(b, a) - o[a] ELSE o[a] - boxHi(b, a), m |-> Abs(d[a])]
exit(o, d, b, a) ==
    [n |-> IF d[a] > 0 THEN boxHi(b, a) - o[a] ELSE o[a] - boxLo(b, a), m |-> Abs(d[a])]

FracLeq(p, q) == p.n * q.m <= q.n * p.m

\* does the ray enter mesh b at a distance within [near, far]
intersects(o, d, near, far, b) ==
    LET moving == {a \in Axes : d[a] # 0}
    IN /\ moving # {}
       /\ \A a \in Axes \ moving : boxLo(b, a) <= o[a] /\ o[a] <= boxHi(b, a)
       /\ \A a1 \in moving : \A a2 \in moving :
              FracLeq(enter(o, d, b, a1), exit(o, d, b, a2))
       /\ \E a \in moving : near * enter(o, d, b, a).m <= enter(o, d, b, a).n * SCALE
       /\ \A a \in moving : enter(o, d, b, a).n * SCALE <= far * enter(o, d, b, a).m

\* Raycaster.intersectObjects(meshes): the meshes hit
intersectObjects(o, d, near, far, meshes) ==
    {i \in 1..Len(meshes) : intersects(o, d, near, far, meshes[i])}

Down == Vec(0, -SCALE, 0)

\* firstPointY that takes the hit farthest from the origin
lastPointY(o, meshes, hits) ==
    LET dist(i) == o.y - meshes[i].ymax
        last == CHOOSE i \in hits : \A j \in hits : dist(i) >= dist(j)
    IN meshes[last].ymax

\* hits[0].point.y of a downward ray: the hit nearest the origin
firstPointY(o, meshes, hits) ==
    LET dist(i) == o.y - meshes[i].ymax
        first == CHOOSE i \in hits : \A j \in hits : dist(i) <= dist(j)
    IN meshes[first].ymax

NoProbe == [ran |-> FALSE, hit |-> FALSE, y |-> 0]

\* the downward ray of terrain.js, cast from rayLift above position p
groundProbe(p) ==
    LET o == Vec(p.x, p.y + rayLift, p.z)
        hits == intersectObjects(o, Down, 0, rayFar, terrainMeshes)
    IN IF hits # {}
       THEN [ran |-> TRUE, hit |-> TRUE, y |-> firstPointY(o, terrainMeshes, hits)]
       ELSE [ran |-> TRUE, hit |-> FALSE, y |-> 0]

\* collision.js checkCollision(currentPos, moveDirection)
checkCollision(currentPos, moveDirection) ==
    LET nextPos == addScaledVector(currentPos, moveDirection, moveSpeed)
        o == Vec(nextPos.x, nextPos.y + collisionLift, nextPos.z)
    IN intersectObjects(o, moveDirection, 0, collisionDistance, collidables) # {}

\* Vector3.distanceTo
distanceTo(p, q) ==
    Sqrt((p.x - q.x) * (p.x - q.x) + (p.y - q.y) * (p.y - q.y)
         + (p.z - q.z) * (p.z - q.z))

----------------------------------------------------------------------------
(* What the XR session reports to a frame *)

\* thumbstick readings (axes[2], axes[3]): both axes at the deadzone, one
\* axis just past it, and a diagonal with one axis at the deadzone
AxisPairs == {<<150, -150>>, <<151, 0>>, <<0, -151>>, <<-150, -200>>}

Source(h, g, n, x, y) ==
    [handedness |-> h, gamepad |-> g, naxes |-> n, x |-> x, y |-> y]

\* naxes of a gamepad that has no axes array
NoAxes == 0 - 1

Sources ==
    {Source("left", TRUE, 4, a[1], a[2]) : a \in AxisPairs}
    \cup {Source("right", TRUE, 4, 0, -SCALE),
          Source("left", FALSE, 0, 0, 0),
          Source("left", TRUE, 2, 0, 0),
          Source("left", TRUE, NoAxes, 0, 0)}

Quat(x, y, z, w) == [x |-> x, y |-> y, z |-> z, w |-> w]

Level == Quat(0, 0, 0, QSCALE)

\* camera.quaternion: level and facing -z, and facing straight down (a turn
\* of 120 degrees about (-1, -1, -1), which stands the camera's z axis upright)
Quaternions == {Level, Quat(-1, -1, -1, 1)}

\* Math.sin(Date.now() * 0.005): the ends and the middle of its range
Sines == {-SCALE, 0, SCALE}

NoVec == [none |-> TRUE]
NoStick == [none |-> TRUE]
NoSnap == [ran |-> FALSE, hit |-> FALSE, y |-> 0, still |-> FALSE, delta |-> 0]

----------------------------------------------------------------------------
(* The forEach callback, up to the movement itself (the same in all scenes) *)

\* gamepad.axes.length raises a TypeError
throws(s) == s.handedness = "left" /\ s.gamepad /\ s.naxes = NoAxes

\* readsStick without the test of the hand
readsStickAnyHand(s) == s.gamepad /\ s.naxes >= 4

\* the callback reads the thumbstick of source s
readsStick(s) == s.handedness = "left" /\ s.gamepad /\ s.naxes >= 4

\* wantsMove with the deadzone test made strict the wrong way round
wantsMoveAtDeadzone(s) ==
    readsStick(s) /\ (Abs(s.x) >= deadzone \/ Abs(s.y) >= deadzone)

\* the callback goes on to move the rig
wantsMove(s) ==
    readsStick(s) /\ (Abs(s.x) > deadzone \/ Abs(s.y) > deadzone)

\* calcMoveDir without moveDir.y = 0
calcMoveDirPitched(s, q) ==
    normalize(applyQuaternion(Vec(s.x, 0, s.y), q))

\* moveDir: the stick rotated by the camera, flattened and normalised
calcMoveDir(s, q) ==
    LET v == applyQuaternion(Vec(s.x, 0, s.y), q)
    IN normalize([v EXCEPT !.y = 0])

----------------------------------------------------------------------------
(* Initial states.  Each scene starts at cameraRig.position.set(0, 1.6, 3); *)
(* the other starting points are positions the rig reaches from there by    *)
(* walking over the flat floor, where nothing but x and z changes: straight *)
(* ahead or back along z, and, for (2.03, -14.99), one diagonal step of     *)
(* (0.03, -0.04), 40 steps along x and 359 along -z, past the stairs' side. *)
(* (0, 1.6, -1.154) is 4.0 from the cube, to the precision of distanceTo.   *)
(* In the collision scene the walk straight ahead is never refused, the ray *)
(* of checkCollision passing at y = 2.1 over the obstacles (tops at 2.0),   *)
(* so that it reaches (0, 1.6, -4.45), 0.05 short of the third obstacle.    *)

Scenes == {"movement", "terrain", "collision", "proximity"}

\* none of world.js exists in the scenes of basics/
NoCity ==
    /\ cityModel = "none"
    /\ audioBuffer = "none"
    /\ logged = NoVec
    /\ tsunamiActive = FALSE
    /\ waterVisible = FALSE
    /\ waterLevel = 0
    /\ waterY = 0
    /\ triggerPressed = FALSE
    /\ isWalking = FALSE
    /\ isPlaying = FALSE
    /\ lastFootstepTime = 0
    /\ now = 0
    /\ movingThisFrame = FALSE

Starts(sc) ==
    {Vec(0, eyeHeight, 3000)} \cup
    CASE sc = "terrain" ->
           {Vec(0, eyeHeight, -4200), Vec(0, eyeHeight, 14950),
            Vec(2030, eyeHeight, -14990)}
      [] sc = "collision" -> {Vec(0, eyeHeight, -3500), Vec(0, eyeHeight, -4450)}
      [] sc = "proximity" -> {Vec(0, eyeHeight, -1100), Vec(0, eyeHeight, -1154)}
      [] OTHER -> {}

Init ==
    /\ scene \in Scenes
    /\ rig \in Starts(scene)
    /\ pc = "idle"
    /\ frame = 0
    /\ isPresenting = FALSE
    /\ quat = Level
    /\ pending = 0
    /\ currentY = eyeHeight
    /\ isNearCube = FALSE
    /\ cubeColor = GREEN
    /\ cubeScale = SCALE
    /\ stick = NoStick
    /\ moveDir = NoVec
    /\ probe = NoProbe
    /\ steps = 0
    /\ moves = 0
    /\ prev = [currentY |-> eyeHeight, y |-> eyeHeight]
    /\ snap = NoSnap
    /\ snaps = 0
    /\ kind = "none"
    /\ painted = 0
    /\ viewport = "initial"
    /\ NoCity

----------------------------------------------------------------------------
(* animate(): entry *)

animateBegin(p, q, n) ==
    /\ scene \in Scenes
    /\ pc = "idle"
    /\ frame < MaxFrames
    /\ pc' = "forEach"
    /\ isPresenting' = p
    /\ quat' = IF p THEN q ELSE Level
    /\ pending' = IF p THEN n ELSE 0
    /\ stick' = NoStick
    /\ moveDir' = NoVec
    /\ probe' = NoProbe
    /\ steps' = 0
    /\ prev' = [currentY |-> currentY, y |-> rig.y]
    /\ kind' = "none"
    /\ painted' = 0
    /\ UNCHANGED <<scene, frame, rig, currentY, isNearCube, cubeColor, cubeScale, moves,
                   snap, snaps, viewport, cityVars>>

\* what the callback makes of source s
kindOf(s) ==
    IF s.handedness # "left" THEN "other"
    ELSE IF s.gamepad /\ s.naxes >= 4 THEN "stick" ELSE "malformed"

\* the callback is invoked with a source whose gamepad has no axes array: the
\* TypeError leaves animate() at once, and the animation loop, which asks for
\* its next frame only after animate() has returned, runs no further frame
forEachThrows(s) ==
    /\ scene \in Scenes
    /\ pc = "forEach" /\ pending > 0
    /\ throws(s)
    /\ pc' = "threw"
    /\ kind' = kindOf(s)
    /\ stick' = NoStick
    /\ moveDir' = NoVec
    /\ probe' = NoProbe
    /\ UNCHANGED <<scene, frame, isPresenting, quat, pending, rig, currentY,
                   isNearCube, cubeColor, cubeScale, steps, moves, prev, snap, snaps,
                   painted, viewport, cityVars>>

\* the callback is invoked with source s
visit(s) ==
    /\ pc = "forEach" /\ pending > 0
    /\ ~throws(s)
    /\ wantsMove(s) => moves < MaxMoves
    /\ kind' = kindOf(s)
    /\ pending' = pending - 1
    /\ stick' = IF readsStick(s) THEN [x |-> s.x, y |-> s.y] ELSE NoStick
    /\ steps' = IF wantsMove(s) THEN steps + 1 ELSE steps
    /\ moves' = IF wantsMove(s) THEN moves + 1 ELSE moves
    /\ UNCHANGED <<scene, pc, frame, isPresenting, quat, isNearCube, cubeColor, cubeScale,
                   prev, snap, snaps, painted, viewport, cityVars>>

\* the callback returns without moving
noMove ==
    /\ moveDir' = NoVec
    /\ probe' = NoProbe
    /\ UNCHANGED <<rig, currentY>>

\* movement.js, proximity.js: the forEach callback
plainForEach(s) ==
    /\ scene \in {"movement", "proximity"}
    /\ visit(s)
    /\ IF wantsMove(s)
       THEN LET dir == calcMoveDir(s, quat)
            IN /\ moveDir' = dir
               /\ rig' = addScaledVector(rig, dir, moveSpeed)
               /\ UNCHANGED <<probe, currentY>>
       ELSE noMove

\* checkTerrainAtNextPosition with a fallback height where there is no ground
checkTerrainAtNextPositionFallback(g, curY) ==
    IF g.hit THEN lerp(curY, g.y + eyeHeight, interpolationFactor) ELSE eyeHeight

\* terrain.js checkTerrainAtNextPosition(nextPos): the new currentY, g being
\* what its ray found beneath nextPos
checkTerrainAtNextPosition(g, curY) ==
    IF g.hit THEN lerp(curY, g.y + eyeHeight, interpolationFactor) ELSE curY

\* terrainMove that forgets cameraRig.position.y = currentY
terrainMoveKeepsY(p, dir, g, newY) ==
    LET nextPos == addScaledVector(p, dir, moveSpeed)
    IN IF g.hit THEN Vec(nextPos.x, p.y, nextPos.z)
       ELSE addScaledVector(p, dir, moveSpeed)

\* terrainMove that refuses to leave the ground
terrainMoveNeedsGround(p, dir, g, newY) ==
    LET nextPos == addScaledVector(p, dir, moveSpeed)
    IN IF g.hit THEN Vec(nextPos.x, newY, nextPos.z) ELSE p

\* terrain.js animate(): the rig after the move, newY being the new currentY
terrainMove(p, dir, g, newY) ==
    LET nextPos == addScaledVector(p, dir, moveSpeed)
    IN IF g.hit THEN Vec(nextPos.x, newY, nextPos.z)
       ELSE addScaledVector(p, dir, moveSpeed)

\* terrain.js: the forEach callback
terrainForEach(s) ==
    /\ scene = "terrain"
    /\ visit(s)
    /\ IF wantsMove(s)
       THEN LET dir == calcMoveDir(s, quat)
                g == groundProbe(addScaledVector(rig, dir, moveSpeed))
            IN /\ moveDir' = dir
               /\ probe' = g
               /\ currentY' = checkTerrainAtNextPosition(g, currentY)
               /\ rig' = terrainMove(rig, dir, g, currentY')
       ELSE noMove

\* collision.js: the forEach callback
collisionForEach(s) ==
    /\ scene = "collision"
    /\ visit(s)
    /\ IF wantsMove(s)
       THEN LET dir == calcMoveDir(s, quat)
                blocked == checkCollision(rig, dir)
            IN /\ moveDir' = dir
               /\ probe' = [ran |-> TRUE, hit |-> blocked, y |-> 0]
               /\ rig' = IF blocked THEN rig
                         ELSE addScaledVector(rig, dir, moveSpeed)
               /\ UNCHANGED currentY
       ELSE noMove

----------------------------------------------------------------------------
(* animate(): after the forEach *)

\* animate() returns
endOfFrame ==
    /\ pc = "forEach" /\ pending = 0
    /\ pc' = "idle"
    /\ frame' = frame + 1
    /\ isPresenting' = FALSE
    /\ quat' = Level
    /\ stick' = NoStick
    /\ moveDir' = NoVec
    /\ probe' = NoProbe
    /\ kind' = "none"
    /\ UNCHANGED <<scene, pending, steps, moves, prev, viewport>>

\* movement.js, collision.js: renderer.render(scene, camera)
plainEnd ==
    /\ scene \in {"movement", "collision"}
    /\ endOfFrame
    /\ UNCHANGED <<rig, currentY, isNearCube, cubeColor, cubeScale, snap, snaps, painted,
                   cityVars>>

\* terrainFollowing that goes half of the way in one call
terrainFollowingHalfway ==
    LET g == groundProbe(rig)
    IN /\ IF g.hit
          THEN /\ currentY' = lerp(currentY, g.y + eyeHeight, SCALE \div 2)
               /\ rig' = [rig EXCEPT !.y = currentY']
          ELSE UNCHANGED <<currentY, rig>>
       /\ snaps' = snaps + 1
       /\ snap' = [ran |-> TRUE, hit |-> g.hit, y |-> g.y, still |-> steps = 0,
                   delta |-> Abs(currentY' - currentY)]

\* terrainFollowing that forgets cameraRig.position.y = currentY
terrainFollowingTracksOnly ==
    LET g == groundProbe(rig)
    IN /\ IF g.hit
          THEN /\ currentY' = lerp(currentY, g.y + eyeHeight, interpolationFactor)
               /\ UNCHANGED rig
          ELSE UNCHANGED <<currentY, rig>>
       /\ snaps' = snaps + 1
       /\ snap' = [ran |-> TRUE, hit |-> g.hit, y |-> g.y, still |-> steps = 0,
                   delta |-> Abs(currentY' - currentY)]

\* terrain.js terrainFollowing(cameraRig.position)
terrainFollowing ==
    LET g == groundProbe(rig)
    IN /\ IF g.hit
          THEN /\ currentY' = lerp(currentY, g.y + eyeHeight, interpolationFactor)
               /\ rig' = [rig EXCEPT !.y = currentY']
          ELSE UNCHANGED <<currentY, rig>>
       /\ snaps' = snaps + 1
       /\ snap' = [ran |-> TRUE, hit |-> g.hit, y |-> g.y, still |-> steps = 0,
                   delta |-> Abs(currentY' - currentY)]

\* terrainEnd that follows the terrain only in a frame without movement
terrainEndOnlyStill ==
    /\ scene = "terrain"
    /\ endOfFrame
    /\ IF steps = 0 THEN terrainFollowing
       ELSE UNCHANGED <<rig, currentY, snap, snaps>>
    /\ UNCHANGED <<isNearCube, cubeColor, cubeScale, painted, cityVars>>

\* terrain.js animate(): terrainFollowing, then render
terrainEnd ==
    /\ scene = "terrain"
    /\ endOfFrame
    /\ terrainFollowing
    /\ UNCHANGED <<isNearCube, cubeColor, cubeScale, painted, cityVars>>

\* proximity.js checkProximity(): the cube's scale, near being isNearCube as
\* just updated and sn the sine of the clock
pulsate(near, sn) ==
    IF near THEN SCALE + (sn * pulseDepth) \div SCALE ELSE SCALE

\* checkProximity that leaves the scale alone while far
checkProximityKeepsScale(sn) ==
    LET distance == distanceTo(rig, cubePosition)
    IN /\ IF distance < proximityDistance /\ ~isNearCube
          THEN cubeColor' = RED /\ isNearCube' = TRUE /\ painted' = painted + 1
          ELSE IF distance >= proximityDistance /\ isNearCube
          THEN cubeColor' = GREEN /\ isNearCube' = FALSE /\ painted' = painted + 1
          ELSE UNCHANGED <<cubeColor, isNearCube, painted>>
       /\ IF isNearCube' THEN cubeScale' = pulsate(TRUE, sn)
          ELSE UNCHANGED cubeScale

\* checkProximity without the branch that turns the flag off
checkProximityNeverLeaves(sn) ==
    LET distance == distanceTo(rig, cubePosition)
    IN /\ IF distance < proximityDistance /\ ~isNearCube
          THEN cubeColor' = RED /\ isNearCube' = TRUE /\ painted' = painted + 1
          ELSE UNCHANGED <<cubeColor, isNearCube, painted>>
       /\ cubeScale' = pulsate(isNearCube', sn)

\* checkProximity that takes a distance of exactly proximityDistance for near
checkProximityInclusive(sn) ==
    LET distance == distanceTo(rig, cubePosition)
    IN /\ IF distance <= proximityDistance /\ ~isNearCube
          THEN cubeColor' = RED /\ isNearCube' = TRUE /\ painted' = painted + 1
          ELSE IF distance > proximityDistance /\ isNearCube
          THEN cubeColor' = GREEN /\ isNearCube' = FALSE /\ painted' = painted + 1
          ELSE UNCHANGED <<cubeColor, isNearCube, painted>>
       /\ cubeScale' = pulsate(isNearCube', sn)

\* checkProximity that sets the colour in every frame
checkProximityRepaints(sn) ==
    LET distance == distanceTo(rig, cubePosition)
    IN /\ IF distance < proximityDistance
          THEN cubeColor' = RED /\ isNearCube' = TRUE /\ painted' = painted + 1
          ELSE cubeColor' = GREEN /\ isNearCube' = FALSE /\ painted' = painted + 1
       /\ cubeScale' = pulsate(isNearCube', sn)

\* proximity.js checkProximity()
checkProximity(sn) ==
    LET distance == distanceTo(rig, cubePosition)
    IN /\ IF distance < proximityDistance /\ ~isNearCube
          THEN cubeColor' = RED /\ isNearCube' = TRUE /\ painted' = painted + 1
          ELSE IF distance >= proximityDistance /\ isNearCube
          THEN cubeColor' = GREEN /\ isNearCube' = FALSE /\ painted' = painted + 1
          ELSE UNCHANGED <<cubeColor, isNearCube, painted>>
       /\ cubeScale' = pulsate(isNearCube', sn)

\* proximity.js animate(): checkProximity, then render
proximityEnd(sn) ==
    /\ scene = "proximity"
    /\ endOfFrame
    /\ checkProximity(sn)
    /\ UNCHANGED <<rig, currentY, snap, snaps, cityVars>>

----------------------------------------------------------------------------

Next ==
    \/ \E p \in BOOLEAN, q \in Quaternions, n \in 0..MaxSources : animateBegin(p, q, n)
    \/ \E s \in Sources : plainForEach(s)
    \/ \E s \in Sources : terrainForEach(s)
    \/ \E s \in Sources : collisionForEach(s)
    \/ \E s \in Sources : forEachThrows(s)
    \/ plainEnd
    \/ terrainEnd
    \/ \E sn \in Sines : proximityEnd(sn)

Spec == Init /\ [][Next]_vars

----------------------------------------------------------------------------
(* world.js: the city scene *)

cityMoveSpeed == 100
cityInterpolation == 150
playerEyeHeight == 1600
footstepInterval == 400
maxWaterLevel == 8000
riseSpeed == 15
waterStart == -2000
waterHalfThickness == 2500

\* waterLevel after 666 rises, the last value below maxWaterLevel
waterAlmostFull == waterStart + 666 * riseSpeed

\* Date.now() when the page has loaded, and the time from one frame to the next
StartTime == 10 * 100
FrameTimes == {footstepInterval, footstepInterval + 1}

\* camera.quaternion in the city: the camera stays level (what its
\* orientation does to moveDir is the code of the scenes of basics/)
CityQuaternions == {Level}

\* window sizes
Windows == {"initial", "resized"}

CitySource(h, g, nb, pressed, n, x, y) ==
    [handedness |-> h, gamepad |-> g, nbuttons |-> nb, pressed |-> pressed,
     naxes |-> n, x |-> x, y |-> y]

CitySources ==
    {CitySource("left", TRUE, 1, TRUE, 4, 0, 0),
     CitySource("left", TRUE, 1, FALSE, 4, 0, -151),
     CitySource("left", TRUE, 1, TRUE, 4, 151, 0),
     CitySource("left", TRUE, 0, FALSE, 2, 0, 0),
     CitySource("right", TRUE, 1, TRUE, 4, 0, -SCALE),
     CitySource("left", TRUE, 1, TRUE, NoAxes, 0, 0)}

\* what the ray of terrainFollowing finds in the loaded model, whose geometry
\* comes from the .glb file: nothing, or ground at height 0.5
CityGrounds ==
    {[ran |-> TRUE, hit |-> FALSE, y |-> 0],
     [ran |-> TRUE, hit |-> TRUE, y |-> 500]}

CityInit ==
    /\ scene = "city"
    /\ rig = Vec(-390, 1000, 1200)
    /\ pc = "idle"
    /\ frame = 0
    /\ isPresenting = FALSE
    /\ quat = Level
    /\ pending = 0
    /\ currentY = playerEyeHeight
    /\ isNearCube = FALSE
    /\ cubeColor = GREEN
    /\ cubeScale = SCALE
    /\ stick = NoStick
    /\ moveDir = NoVec
    /\ probe = NoProbe
    /\ steps = 0
    /\ moves = 0
    /\ prev = [currentY |-> playerEyeHeight, y |-> 1000]
    /\ snap = NoSnap
    /\ snaps = 0
    /\ kind = "none"
    /\ painted = 0
    /\ viewport = "initial"
    /\ cityModel = "loading"
    /\ audioBuffer = "loading"
    /\ logged = NoVec
    /\ \/ /\ tsunamiActive = FALSE /\ waterVisible = FALSE
          /\ waterLevel = waterStart
       \/ /\ tsunamiActive = TRUE /\ waterVisible = TRUE
          /\ waterLevel = waterAlmostFull
    /\ waterY = waterLevel + waterHalfThickness
    /\ triggerPressed = FALSE
    /\ isWalking = FALSE
    /\ isPlaying = FALSE
    /\ lastFootstepTime = 0
    /\ now = StartTime
    /\ movingThisFrame = FALSE

\* updateTsunami that rises only while a whole step is left below the maximum
updateTsunamiStopsShort(p) ==
    IF p /\ tsunamiActive /\ waterLevel + riseSpeed < maxWaterLevel
    THEN /\ waterLevel' = waterLevel + riseSpeed
         /\ waterY' = waterLevel' + waterHalfThickness
    ELSE UNCHANGED <<waterLevel, waterY>>

\* updateTsunami without the test of renderer.xr.isPresenting
updateTsunamiOffline(p) ==
    IF tsunamiActive /\ waterLevel < maxWaterLevel
    THEN /\ waterLevel' = waterLevel + riseSpeed
         /\ waterY' = waterLevel' + waterHalfThickness
    ELSE UNCHANGED <<waterLevel, waterY>>

\* world.js updateTsunami()
updateTsunami(p) ==
    IF p /\ tsunamiActive /\ waterLevel < maxWaterLevel
    THEN /\ waterLevel' = waterLevel + riseSpeed
         /\ waterY' = waterLevel' + waterHalfThickness
    ELSE UNCHANGED <<waterLevel, waterY>>

\* world.js animate(): the frame callback up to the forEach of handleMovement
cityBegin(p, q, n, dt) ==
    /\ scene = "city"
    /\ pc = "idle"
    /\ pc' = "forEach"
    /\ now' = now + dt
    /\ updateTsunami(p)
    /\ isPresenting' = p
    /\ quat' = IF p THEN q ELSE Level
    /\ pending' = IF p THEN n ELSE 0
    /\ movingThisFrame' = FALSE
    /\ stick' = NoStick
    /\ moveDir' = NoVec
    /\ probe' = NoProbe
    /\ steps' = 0
    /\ prev' = [currentY |-> currentY, y |-> rig.y]
    /\ kind' = "none"
    /\ painted' = 0
    /\ UNCHANGED <<scene, frame, rig, currentY, isNearCube, cubeColor, cubeScale, moves,
                   snap, snaps, viewport, cityModel, audioBuffer, logged,
                   tsunamiActive, waterVisible, triggerPressed, isWalking,
                   isPlaying, lastFootstepTime>>

\* world.js startTsunami()
startTsunami ==
    IF ~tsunamiActive
    THEN waterVisible' = TRUE /\ tsunamiActive' = TRUE
    ELSE UNCHANGED <<waterVisible, tsunamiActive>>

\* readTrigger whose press stops a tsunami that is under way
readTriggerToggles(s) ==
    IF s.handedness = "left" /\ s.gamepad /\ s.nbuttons > 0
    THEN IF s.pressed /\ ~triggerPressed
         THEN /\ triggerPressed' = TRUE
              /\ IF ~tsunamiActive THEN startTsunami
                 ELSE waterVisible' = FALSE /\ tsunamiActive' = FALSE
         ELSE IF ~s.pressed
         THEN triggerPressed' = FALSE /\ UNCHANGED <<waterVisible, tsunamiActive>>
         ELSE UNCHANGED <<triggerPressed, waterVisible, tsunamiActive>>
    ELSE UNCHANGED <<triggerPressed, waterVisible, tsunamiActive>>

\* handleMovement: the trigger button of source s
readTrigger(s) ==
    IF s.handedness = "left" /\ s.gamepad /\ s.nbuttons > 0
    THEN IF s.pressed /\ ~triggerPressed
         THEN /\ triggerPressed' = TRUE
              /\ IF ~tsunamiActive THEN startTsunami
                 ELSE UNCHANGED <<waterVisible, tsunamiActive>>
         ELSE IF ~s.pressed
         THEN triggerPressed' = FALSE /\ UNCHANGED <<waterVisible, tsunamiActive>>
         ELSE UNCHANGED <<triggerPressed, waterVisible, tsunamiActive>>
    ELSE UNCHANGED <<triggerPressed, waterVisible, tsunamiActive>>

\* playFootstep that plays again as soon as footstepInterval has elapsed
playFootstepAtInterval ==
    IF audioBuffer = "loaded" /\ now - lastFootstepTime >= footstepInterval
    THEN isPlaying' = TRUE /\ lastFootstepTime' = now
    ELSE UNCHANGED <<isPlaying, lastFootstepTime>>

\* handleMovement: the footstep sound of a callback invocation that moved
playFootstep ==
    IF audioBuffer = "loaded" /\ now - lastFootstepTime > footstepInterval
    THEN isPlaying' = TRUE /\ lastFootstepTime' = now
    ELSE UNCHANGED <<isPlaying, lastFootstepTime>>

\* handleMovement: the forEach callback
cityForEach(s) ==
    /\ scene = "city"
    /\ pc = "forEach" /\ pending > 0
    /\ ~throws(s)
    /\ wantsMove(s) => moves < MaxMoves
    /\ pending' = pending - 1
    /\ kind' = kindOf(s)
    /\ stick' = IF readsStick(s) THEN [x |-> s.x, y |-> s.y] ELSE NoStick
    /\ steps' = IF wantsMove(s) THEN steps + 1 ELSE steps
    /\ moves' = IF wantsMove(s) THEN moves + 1 ELSE moves
    /\ readTrigger(s)
    /\ IF wantsMove(s)
       THEN LET dir == calcMoveDir(s, quat)
            IN /\ movingThisFrame' = TRUE
               /\ moveDir' = dir
               /\ rig' = addScaledVector(rig, dir, cityMoveSpeed)
               /\ playFootstep
       ELSE /\ moveDir' = NoVec
            /\ UNCHANGED <<rig, movingThisFrame, isPlaying, lastFootstepTime>>
    /\ probe' = NoProbe
    /\ UNCHANGED <<scene, pc, frame, isPresenting, quat, currentY, isNearCube,
                   cubeColor, cubeScale, prev, snap, snaps, painted, viewport, cityModel,
                   audioBuffer, logged, waterLevel, waterY, isWalking, now>>

\* handleMovement: the callback is invoked with a source whose gamepad has no
\* axes array; the TypeError comes after the trigger has been read
cityForEachThrows(s) ==
    /\ scene = "city"
    /\ pc = "forEach" /\ pending > 0
    /\ throws(s)
    /\ pc' = "threw"
    /\ kind' = kindOf(s)
    /\ readTrigger(s)
    /\ stick' = NoStick
    /\ moveDir' = NoVec
    /\ probe' = NoProbe
    /\ UNCHANGED <<scene, frame, isPresenting, quat, pending, rig, currentY,
                   isNearCube, cubeColor, cubeScale, steps, moves, prev, snap, snaps,
                   painted, viewport, cityModel, audioBuffer, logged,
                   waterLevel, waterY, isWalking, isPlaying, lastFootstepTime,
                   now, movingThisFrame>>

\* terrainFollowing that takes the ground plane (at height 0) for ground
\* while there is no city model
cityTerrainFollowingOnPlane(g) ==
    IF cityModel = "loaded"
    THEN /\ g \in CityGrounds
         /\ IF g.hit
            THEN /\ currentY' = lerp(currentY, g.y + playerEyeHeight, cityInterpolation)
                 /\ rig' = [rig EXCEPT !.y = currentY']
            ELSE UNCHANGED <<currentY, rig>>
         /\ snaps' = snaps + 1
         /\ snap' = [ran |-> TRUE, hit |-> g.hit, y |-> g.y, still |-> steps = 0,
                     delta |-> Abs(currentY' - currentY)]
    ELSE /\ g = NoProbe
         /\ currentY' = lerp(currentY, playerEyeHeight, cityInterpolation)
         /\ rig' = [rig EXCEPT !.y = currentY']
         /\ UNCHANGED <<snap, snaps>>

\* world.js terrainFollowing(), g being what its ray finds
cityTerrainFollowing(g) ==
    IF cityModel = "loaded"
    THEN /\ g \in CityGrounds
         /\ IF g.hit
            THEN /\ currentY' = lerp(currentY, g.y + playerEyeHeight, cityInterpolation)
                 /\ rig' = [rig EXCEPT !.y = currentY']
            ELSE UNCHANGED <<currentY, rig>>
         /\ snaps' = snaps + 1
         /\ snap' = [ran |-> TRUE, hit |-> g.hit, y |-> g.y, still |-> steps = 0,
                     delta |-> Abs(currentY' - currentY)]
    ELSE /\ g = NoProbe
         /\ UNCHANGED <<currentY, rig, snap, snaps>>

\* world.js: handleMovement after the forEach, terrainFollowing, render
cityEnd(g) ==
    /\ scene = "city"
    /\ endOfFrame
    /\ IF isPresenting
       THEN /\ isPlaying' = (isPlaying /\ movingThisFrame)
            /\ isWalking' = movingThisFrame
       ELSE UNCHANGED <<isPlaying, isWalking>>
    /\ cityTerrainFollowing(g)
    /\ UNCHANGED <<isNearCube, cubeColor, cubeScale, painted, cityModel, audioBuffer, logged,
                   tsunamiActive, waterVisible, waterLevel, waterY,
                   triggerPressed, lastFootstepTime, now, movingThisFrame>>

----------------------------------------------------------------------------
(* What runs between frames: load callbacks, the resize handler, the timer *)

\* no frame is running
betweenFrames == pc \in {"idle", "threw"}

\* everything a frame callback works with
frameVars == <<scene, pc, frame, isPresenting, quat, pending, rig, currentY,
               isNearCube, cubeColor, cubeScale, stick, moveDir, probe, steps, moves, prev,
               snap, snaps, kind, painted>>

\* onWindowResize of the scenes of basics/, the resize listener of world.js
onWindowResize(w) ==
    /\ betweenFrames
    /\ viewport' = w
    /\ UNCHANGED <<frameVars, cityVars>>

\* onCityLoaded that also stands the player at eye height
onCityLoadedPlacesPlayer ==
    /\ scene = "city" /\ betweenFrames
    /\ cityModel = "loading"
    /\ cityModel' = "loaded"
    /\ rig' = [rig EXCEPT !.y = playerEyeHeight]
    /\ UNCHANGED <<scene, pc, frame, isPresenting, quat, pending, currentY,
                   isNearCube, cubeColor, cubeScale, stick, moveDir, probe, steps, moves,
                   prev, snap, snaps, kind, painted>>
    /\ UNCHANGED <<viewport, audioBuffer, logged, tsunamiActive,
                   waterVisible, waterLevel, waterY, triggerPressed, isWalking,
                   isPlaying, lastFootstepTime, now, movingThisFrame>>

\* the success callback of loader.load
onCityLoaded ==
    /\ scene = "city" /\ betweenFrames
    /\ cityModel = "loading"
    /\ cityModel' = "loaded"
    /\ UNCHANGED <<frameVars, viewport, audioBuffer, logged, tsunamiActive,
                   waterVisible, waterLevel, waterY, triggerPressed, isWalking,
                   isPlaying, lastFootstepTime, now, movingThisFrame>>

\* the error callback of loader.load
onCityError ==
    /\ scene = "city" /\ betweenFrames
    /\ cityModel = "loading"
    /\ cityModel' = "failed"
    /\ UNCHANGED <<frameVars, viewport, audioBuffer, logged, tsunamiActive,
                   waterVisible, waterLevel, waterY, triggerPressed, isWalking,
                   isPlaying, lastFootstepTime, now, movingThisFrame>>

\* the success callback of audioLoader.load
onAudioLoaded ==
    /\ scene = "city" /\ betweenFrames
    /\ audioBuffer = "loading"
    /\ audioBuffer' = "loaded"
    /\ UNCHANGED <<frameVars, viewport, cityModel, logged, tsunamiActive,
                   waterVisible, waterLevel, waterY, triggerPressed, isWalking,
                   isPlaying, lastFootstepTime, now, movingThisFrame>>

\* the error callback of audioLoader.load
onAudioError ==
    /\ scene = "city" /\ betweenFrames
    /\ audioBuffer = "loading"
    /\ audioBuffer' = "failed"
    /\ UNCHANGED <<frameVars, viewport, cityModel, logged, tsunamiActive,
                   waterVisible, waterLevel, waterY, triggerPressed, isWalking,
                   isPlaying, lastFootstepTime, now, movingThisFrame>>

\* the setInterval callback
logPosition ==
    /\ scene = "city" /\ betweenFrames
    /\ logged' = rig
    /\ UNCHANGED <<frameVars, viewport, cityModel, audioBuffer, tsunamiActive,
                   waterVisible, waterLevel, waterY, triggerPressed, isWalking,
                   isPlaying, lastFootstepTime, now, movingThisFrame>>

\* the footstep sound has played to its end
soundEnded ==
    /\ scene = "city" /\ betweenFrames
    /\ isPlaying
    /\ isPlaying' = FALSE
    /\ UNCHANGED <<frameVars, viewport, cityModel, audioBuffer, logged,
                   tsunamiActive, waterVisible, waterLevel, waterY,
                   triggerPressed, isWalking, lastFootstepTime, now,
                   movingThisFrame>>

\* the scenes of basics/ and the city scene, with everything that runs
\* between their frames
FullInit == Init \/ CityInit

FullNext ==
    \/ Next
    \/ /\ frame < MaxCityFrames
       /\ \E p \in BOOLEAN, q \in CityQuaternions, n \in 0..MaxSources, dt \in FrameTimes :
              cityBegin(p, q, n, dt)
    \/ \E s \in CitySources : cityForEach(s)
    \/ \E s \in CitySources : cityForEachThrows(s)
    \/ \E g \in CityGrounds \cup {NoProbe} : cityEnd(g)
    \/ \E w \in Windows : onWindowResize(w)
    \/ onCityLoaded
    \/ onCityError
    \/ onAudioLoaded
    \/ onAudioError
    \/ logPosition
    \/ soundEnded

FullSpec == FullInit /\ [][FullNext]_vars

\* the city scene alone: its frames, the load callbacks and the end of the
\* sound.  The resize handler and the timer are left to FullSpec: they write
\* viewport and logged only, which nothing in a frame of the city reads.
CityNext ==
    \/ /\ frame < MaxCityFrames
       /\ \E p \in BOOLEAN, q \in CityQuaternions, n \in 0..MaxSources, dt \in FrameTimes :
              cityBegin(p, q, n, dt)
    \/ \E s \in CitySources : cityForEach(s)
    \/ \E s \in CitySources : cityForEachThrows(s)
    \/ \E g \in CityGrounds \cup {NoProbe} : cityEnd(g)
    \/ onCityLoaded
    \/ onCityError
    \/ onAudioLoaded
    \/ onAudioError
    \/ soundEnded

CitySpec == CityInit /\ [][CityNext]_vars

\* One run of the tsunami in a session that keeps presenting: the left
\* trigger is pressed in the first frame, and frames without input follow,
\* which the animation loop keeps delivering.
TriggerSource == CitySource("left", TRUE, 1, TRUE, 4, 0, 0)

TsunamiInit == CityInit /\ ~tsunamiActive

TsunamiNext ==
    \/ frame = 0 /\ cityBegin(TRUE, Level, 1, footstepInterval)
    \/ /\ frame > 0 /\ frame < MaxTsunamiFrames
       /\ cityBegin(TRUE, Level, 0, footstepInterval)
    \/ cityForEach(TriggerSource)
    \/ cityEnd(NoProbe)

TsunamiSpec == TsunamiInit /\ [][TsunamiNext]_vars /\ WF_vars(TsunamiNext)

----------------------------------------------------------------------------
(* The downward probe of terrain.js as a function of the position it is     *)
(* given: the position is drawn from ProbePoints and the probe is cast once *)

\* beside and on the stairs, and beyond the floor's edge at x = 15
ProbeXs == {0, 1999, 2001, 15001}

\* ray origins (y + 5) below the floor, on it, inside the first step, above
\* the stairs, and 20, just over 20 and 21.6 above the floor
ProbeYs == {-5200, -5000, -4900, -4000, 1600, 15000, 15001, 16601}

\* the start, the first step, the top step (which overhangs the floor's edge
\* at z = -15) and beyond everything
ProbeZs == {3000, -5000, -15500, -20000}

ProbePoints == {Vec(x, y, z) : x \in ProbeXs, y \in ProbeYs, z \in ProbeZs}

ProbeInit ==
    /\ scene = "terrain"
    /\ rig \in ProbePoints
    /\ pc = "probe"
    /\ frame = 0
    /\ isPresenting = FALSE
    /\ quat = Level
    /\ pending = 0
    /\ currentY = eyeHeight
    /\ isNearCube = FALSE
    /\ cubeColor = GREEN
    /\ cubeScale = SCALE
    /\ stick = NoStick
    /\ moveDir = NoVec
    /\ probe = NoProbe
    /\ steps = 0
    /\ moves = 0
    /\ prev = [currentY |-> eyeHeight, y |-> eyeHeight]
    /\ snap = NoSnap
    /\ snaps = 0
    /\ kind = "none"
    /\ painted = 0
    /\ viewport = "initial"
    /\ NoCity

\* the ray of terrainFollowing / checkTerrainAtNextPosition, cast at rig
castProbe ==
    /\ pc = "probe" /\ ~probe.ran
    /\ probe' = groundProbe(rig)
    /\ UNCHANGED <<scene, pc, frame, isPresenting, quat, pending, rig, currentY,
                   isNearCube, cubeColor, cubeScale, stick, moveDir, steps, moves, prev,
                   snap, snaps, kind, painted, viewport, cityVars>>

ProbeNext == castProbe

ProbeSpec == ProbeInit /\ [][ProbeNext]_vars

----------------------------------------------------------------------------
(* Properties *)

\* the step is a callback invocation; the step is the end of a frame
Visited == pending' = pending - 1
EndsFrame == pc = "forEach" /\ pc' = "idle"

\* C1: a callback invocation that reads a left-hand stick with |x| <= 0.15 and
\* |y| <= 0.15 (0.15 included) produces no move vector and leaves the rig's x
\* and z alone; with |x| > 0.15 or |y| > 0.15 it produces a move vector.
C1_Deadzone ==
    [][(Visited /\ stick' # NoStick) =>
          IF Abs(stick'.x) <= 150 /\ Abs(stick'.y) <= 150
          THEN moveDir' = NoVec /\ steps' = steps
               /\ rig'.x = rig.x /\ rig'.z = rig.z
          ELSE moveDir' # NoVec /\ steps' = steps + 1]_vars

\* a stick with both axes exactly at 0.15 has been read and nothing moved
C1_AtDeadzone ==
    /\ pc = "forEach" /\ stick # NoStick /\ moveDir = NoVec
    /\ Abs(stick.x) = 150 /\ Abs(stick.y) = 150

\* C2: every move vector has unit length and no vertical component, whatever
\* the camera's orientation.
C2_UnitMoveVector ==
    moveDir # NoVec =>
        /\ moveDir.y = 0
        /\ moveDir.x * moveDir.x + moveDir.z * moveDir.z = SCALE * SCALE

\* C3: in the terrain scene a frame without movement whose downward probe hits
\* a surface of height h sets currentY to currentY + (h + 1.6 - currentY) * 0.2
\* and rig.y to the new currentY.
C3_GroundSnapStep ==
    [][(scene = "terrain" /\ EndsFrame /\ steps = 0 /\ snap'.hit) =>
          /\ currentY' = currentY + ((snap'.y + 1600 - currentY) * 2) \div 10
          /\ rig'.y = currentY'
          /\ rig'.x = rig.x /\ rig'.z = rig.z]_vars

\* a frame without movement has snapped the rig towards the first step's top
C3_SnappedOnStep ==
    /\ scene = "terrain" /\ pc = "idle" /\ frame > 0 /\ steps = 0
    /\ snap.hit /\ snap.y = 200 /\ snap.delta > 0

\* C4: in the terrain scene a frame whose downward probe under the rig hits
\* nothing leaves currentY and rig.y as they were when the frame began.
C4_NoGroundKeepsHeight ==
    [][(scene = "terrain" /\ EndsFrame /\ ~snap'.hit) =>
          (currentY' = prev.currentY /\ rig'.y = prev.y)]_vars

\* C5: every frame of the terrain scene calls terrainFollowing, so between
\* frames the calls made equal the frames run.
C5_SnapEveryFrame ==
    (scene = "terrain" /\ pc = "idle") => snaps = frame

\* two frames have run, the latest one with movement
C5_SnappedAfterMoving ==
    scene = "terrain" /\ pc = "idle" /\ frame > 1 /\ steps > 0 /\ snaps = frame

\* C6: in the terrain scene a move whose probe beneath nextPos = rig +
\* moveDir * 0.05 hits a surface of height h2 commits nextPos's x and z, moves
\* currentY one smoothing step towards h2 + 1.6 and sets rig.y to currentY.
C6_MoveOverGround ==
    [][(scene = "terrain" /\ Visited /\ moveDir' # NoVec /\ probe'.hit) =>
          /\ rig'.x = rig.x + (moveDir'.x * 50) \div 1000
          /\ rig'.z = rig.z + (moveDir'.z * 50) \div 1000
          /\ currentY' = currentY + ((probe'.y + 1600 - currentY) * 2) \div 10
          /\ rig'.y = currentY']_vars

\* the rig has just stepped onto the first step from the floor
C6_SteppedUp ==
    /\ scene = "terrain" /\ pc = "forEach" /\ moveDir # NoVec
    /\ probe.hit /\ probe.y = 200 /\ currentY = 1640 /\ rig.y = 1640

\* C7: in the terrain scene a move whose probe beneath the candidate position
\* hits nothing still translates the rig by moveDir * 0.05 in x and z and
\* changes neither currentY nor rig.y.
C7_MoveWithoutGround ==
    [][(scene = "terrain" /\ Visited /\ moveDir' # NoVec /\ ~probe'.hit) =>
          /\ rig'.x = rig.x + (moveDir'.x * 50) \div 1000
          /\ rig'.z = rig.z + (moveDir'.z * 50) \div 1000
          /\ currentY' = currentY
          /\ rig'.y = rig.y]_vars

\* the rig, already past the floor's edge at z = 15, has moved on
C7_WalkingOffTheFloor ==
    /\ scene = "terrain" /\ pc = "forEach" /\ moveDir # NoVec
    /\ probe.ran /\ ~probe.hit /\ moveDir.z > 0 /\ rig.z >= 15100

\* C8: in a frame without movement over ground of height h, currentY moves
\* towards h + 1.6 without crossing it (so h + 1.6 is a fixed point), and by
\* no more than in the frame before when that one was without movement over
\* the same ground.
C8_SmoothingConverges ==
    [][(scene = "terrain" /\ EndsFrame /\ steps = 0 /\ snap'.hit) =>
          LET target == snap'.y + 1600
          IN /\ currentY <= target => (currentY <= currentY' /\ currentY' <= target)
             /\ currentY >= target => (target <= currentY' /\ currentY' <= currentY)
             /\ (snap.still /\ snap.hit /\ snap.y = snap'.y) =>
                    Abs(currentY' - currentY) <= snap.delta]_vars

\* the third frame, without movement, has lowered currentY towards the ground
C8_SettlingFromAbove ==
    /\ scene = "terrain" /\ pc = "idle" /\ frame >= 3
    /\ snap.still /\ snap.hit /\ snap.delta > 0 /\ currentY > snap.y + 1600

\* the forward probe as C9 describes it: from the candidate position, along
\* the move direction, range 1.0, against the obstacles
ProbeFromCandidate(p, dir) ==
    intersectObjects(addScaledVector(p, dir, 50), dir, 0, 1000, collidables) # {}

\* C9: in the collision scene a move whose forward probe from the candidate
\* position hits an obstacle leaves the rig where it is; otherwise the rig is
\* translated by moveDir * 0.05.
C9_CollisionBlocks ==
    [][(scene = "collision" /\ Visited /\ moveDir' # NoVec) =>
          IF ProbeFromCandidate(rig, moveDir') THEN rig' = rig
          ELSE rig' = addScaledVector(rig, moveDir', 50)]_vars

\* C10: in the proximity scene, after every call of checkProximity, isNearCube
\* holds exactly when the rig is less than 4.0 from the cube.
C10_NearIffWithin ==
    (scene = "proximity" /\ pc = "idle" /\ frame > 0) =>
        (isNearCube <=>
            (rig.x - cubePosition.x) * (rig.x - cubePosition.x)
            + (rig.y - cubePosition.y) * (rig.y - cubePosition.y)
            + (rig.z - cubePosition.z) * (rig.z - cubePosition.z) < 4000 * 4000)

\* the rig has walked to within 4.0 of the cube
C10_CameNear ==
    scene = "proximity" /\ pc = "idle" /\ isNearCube

\* C11: a frame whose checkProximity measures a distance of exactly 4.0 ends
\* with the flag far: a far flag stays far with no colour change, a near flag
\* turns far and the cube green.
C11_ExclusiveBoundary ==
    [][(scene = "proximity" /\ EndsFrame
        /\ distanceTo(rig', cubePosition) = 4000) =>
          /\ isNearCube' = FALSE
          /\ ~isNearCube => (cubeColor' = cubeColor /\ painted' = 0)
          /\ isNearCube => (cubeColor' = GREEN /\ painted' = 1)]_vars

\* the rig, near before, has stepped back to exactly 4.0 and the flag turned far
C11_LeftAtBoundary ==
    /\ scene = "proximity" /\ pc = "idle" /\ painted = 1 /\ ~isNearCube
    /\ distanceTo(rig, cubePosition) = 4000

\* C12: in the proximity scene a frame writes the cube's colour once if
\* isNearCube changes in it and not at all otherwise.
C12_OneWritePerCrossing ==
    [][(scene = "proximity" /\ EndsFrame) =>
          /\ painted' = IF isNearCube' # isNearCube THEN 1 ELSE 0
          /\ isNearCube' = isNearCube => cubeColor' = cubeColor]_vars

\* a further frame on the near side has run without writing the colour
C12_StayedNear ==
    /\ scene = "proximity" /\ pc = "idle" /\ frame >= 2
    /\ isNearCube /\ cubeColor = RED /\ painted = 0

\* C13: a callback invocation given a left-handed source without a gamepad,
\* without an axes array or with fewer than 4 axes raises no error, moves
\* nothing, and the frame goes on.
C13_MalformedIsSilent ==
    [][(pc = "forEach" /\ kind' = "malformed") =>
          (pc' = "forEach" /\ rig' = rig /\ currentY' = currentY)]_vars

\* C14: the rig's x or z changes only in a presenting frame, in a callback
\* invocation given a left-handed source with at least 4 axes whose stick is
\* outside the deadzone.
C14_MovementGating ==
    [][(rig'.x # rig.x \/ rig'.z # rig.z) =>
          /\ isPresenting /\ kind' = "stick" /\ stick' # NoStick
          /\ (Abs(stick'.x) > 150 \/ Abs(stick'.y) > 150)]_vars

\* a right-handed source with its stick pushed forward has been passed over
\* in a frame that also moved the rig
C14_RightHandIgnored ==
    pc = "forEach" /\ kind = "other" /\ moveDir = NoVec /\ steps = 1

\* C15: no frame applies the movement step more than once.
C15_OneMovePerFrame ==
    steps <= 1

\* C16: in the movement, collision and proximity scenes the rig's y is 1.6 in
\* every reachable state.
C16_LevelOutsideTerrain ==
    scene \in {"movement", "collision", "proximity"} => rig.y = 1600

\* the rig has moved in the collision scene while the camera looked down
C16_MovedLookingDown ==
    /\ scene = "collision" /\ pc = "forEach" /\ quat # Level
    /\ moveDir # NoVec /\ moveDir # Vec(0, 0, 0) /\ rig.y = 1600

\* C18: in the terrain scene every change of currentY happens in a step whose
\* probe hit a surface, and ends between the old value and that surface's
\* height + 1.6; currentY stays within [1.6, 3.2], the range spanned by 1.6
\* and the walkable surfaces (heights 0 to 1.6) + 1.6.
C18_HeightChangesBySmoothing ==
    [][scene = "terrain" =>
          /\ currentY' # currentY =>
                LET hit == IF EndsFrame THEN snap'.hit ELSE Visited /\ probe'.hit
                    target == (IF EndsFrame THEN snap'.y ELSE probe'.y) + 1600
                IN /\ hit
                   /\ \/ currentY <= currentY' /\ currentY' <= target
                      \/ target <= currentY' /\ currentY' <= currentY
          /\ 1600 <= currentY' /\ currentY' <= 3200]_vars

\* a frame has stepped onto the first step: one smoothing step on the way
\* there and one after arriving
C18_TwoStepsUp ==
    /\ scene = "terrain" /\ pc = "idle" /\ steps = 1
    /\ snap.hit /\ snap.y = 200 /\ currentY = 1672

\* the walkable surfaces whose height a downward probe at p can see: those
\* over (p.x, p.z) with a top within [p.y + 5 - 20, p.y + 5]
SurfacesInWindow(p) ==
    {i \in 1..Len(terrainMeshes) :
        /\ terrainMeshes[i].xmin <= p.x /\ p.x <= terrainMeshes[i].xmax
        /\ terrainMeshes[i].zmin <= p.z /\ p.z <= terrainMeshes[i].zmax
        /\ p.y + 5000 - 20000 <= terrainMeshes[i].ymax
        /\ terrainMeshes[i].ymax <= p.y + 5000}

\* C19: a downward probe at p reports a hit exactly when a walkable surface
\* over (p.x, p.z) has its height within [p.y + 5 - 20, p.y + 5], and the
\* height it reports is the highest of those.
C19_ProbeWindow ==
    (pc = "probe" /\ probe.ran) =>
        /\ probe.hit <=> SurfacesInWindow(rig) # {}
        /\ probe.hit =>
              /\ \E i \in SurfacesInWindow(rig) : probe.y = terrainMeshes[i].ymax
              /\ \A i \in SurfacesInWindow(rig) : terrainMeshes[i].ymax <= probe.y

\* a probe from below has found a step above the position it was given, with
\* the floor in its window too
C19_HitAboveTheRig ==
    /\ pc = "probe" /\ probe.hit /\ probe.y > rig.y /\ probe.y > 0
    /\ Cardinality(SurfacesInWindow(rig)) > 1

\* C20: in the terrain scene rig.y equals currentY in every reachable state.
C20_RigAtTrackedHeight ==
    scene = "terrain" => rig.y = currentY

\* the rig has left the ground after its height had changed
C20_OffGroundAtHeight ==
    /\ scene = "terrain" /\ pc = "forEach" /\ probe.ran /\ ~probe.hit
    /\ currentY > 1600 /\ rig.y = currentY

\* C17: the rig's position and the tracked height change only in steps of a
\* frame callback; the load callbacks, the resize handler, the timer and the
\* end of the sound, which run between frames, leave them as they are.
C17_SingleWriter ==
    [][(rig' # rig \/ currentY' # currentY) => pc = "forEach"]_vars

\* in the city both loads have finished, the window has been resized and the
\* timer has logged a position the rig has since left, at a new height
C17_HandlersBetweenFrames ==
    /\ scene = "city" /\ pc = "idle"
    /\ cityModel = "loaded" /\ audioBuffer = "loaded" /\ viewport = "resized"
    /\ logged # NoVec /\ logged # rig /\ currentY # playerEyeHeight

\* C21: in the terrain scene the reactive probe is cast at the position the
\* frame's movement has left the rig at and moves currentY one smoothing step
\* on; before it, currentY has had no smoothing step in a frame without
\* movement and exactly one, towards some surface's height + 1.6, in a frame
\* with a move committed over ground.
C21_MoveThenSnap ==
    [][(scene = "terrain" /\ EndsFrame) =>
          LET g == groundProbe(rig)
          IN /\ snap'.hit = g.hit
             /\ g.hit => /\ snap'.y = g.y
                         /\ currentY' = currentY + ((g.y + 1600 - currentY) * 2) \div 10
             /\ steps = 0 => currentY = prev.currentY
             /\ (steps > 0 /\ g.hit) =>
                   \E i \in 1..Len(terrainMeshes) :
                       currentY = prev.currentY
                           + ((terrainMeshes[i].ymax + 1600 - prev.currentY) * 2) \div 10]_vars

\* C22: in the proximity scene the cube is red while isNearCube is true and
\* green while it is false; its scale stays within [0.8, 1.2] and is exactly 1
\* whenever isNearCube is false.
C22_LooksAsFlagged ==
    scene = "proximity" =>
        /\ isNearCube => cubeColor = RED
        /\ ~isNearCube => (cubeColor = GREEN /\ cubeScale = 1000)
        /\ 800 <= cubeScale /\ cubeScale <= 1200

\* the rig has stepped away from a cube that was near: the cube is green again
\* and back at scale 1
C22_BackToRest ==
    /\ scene = "proximity" /\ pc = "idle" /\ frame >= 2
    /\ ~isNearCube /\ painted = 1 /\ cubeColor = GREEN /\ cubeScale = 1000

\* the rig's (x, z) lies inside the footprint of obstacle b
InFootprint(p, b) ==
    b.xmin < p.x /\ p.x < b.xmax /\ b.zmin < p.z /\ p.z < b.zmax

\* C23: in the collision scene the rig's (x, z) is never inside the footprint
\* of any of the three obstacles.
C23_NeverInsideObstacle ==
    scene = "collision" =>
        \A i \in 1..Len(collidables) : ~InFootprint(rig, collidables[i])

\* C24: in the city scene, while the city model has not been loaded (its load
\* still running, or failed), no step changes rig.y or currentPlayerHeight and
\* no ground probe is cast, while a callback invocation with the stick outside
\* the deadzone still moves the rig by moveDir * 0.1 in x and z.
C24_NoGroundBeforeModel ==
    [][(scene = "city" /\ cityModel # "loaded") =>
          /\ rig'.y = rig.y /\ currentY' = currentY
          /\ snaps' = snaps /\ snap' = snap
          /\ (Visited /\ moveDir' # NoVec) =>
                /\ rig'.x = rig.x + (moveDir'.x * 100) \div 1000
                /\ rig'.z = rig.z + (moveDir'.z * 100) \div 1000
                /\ rig' # rig]_vars

\* the load has failed and two frames have run, one of them moving the rig,
\* which is still at the height it started at
C24_WalkedWithoutModel ==
    /\ scene = "city" /\ pc = "idle" /\ frame = 2 /\ cityModel = "failed"
    /\ moves > 0 /\ rig # Vec(-390, 1000, 1200) /\ rig.y = 1000
    /\ currentY = 1600 /\ snaps = 0

\* C25: in the city scene a frame whose terrain following finds ground changes
\* rig.y by no more than 0.15 * |targetHeight - rig.y| (to the precision of
\* the arithmetic), rig.y being the rig's height before terrain following and
\* targetHeight the ground's height + 1.6.
C25_NoSuddenJump ==
    [][(scene = "city" /\ EndsFrame /\ snap'.hit) =>
          (Abs(rig'.y - rig.y) - 1) * 1000
              <= 150 * Abs(snap'.y + 1600 - rig.y)]_vars

\* C26: tsunamiActive turns true only in a callback invocation of a
\* presenting frame, given a left-handed source, that finds the trigger newly
\* pressed; once true it stays true; and the water is made visible in that
\* step and in no other, so the start happens at most once.
C26_StartsOnceForGood ==
    [][scene = "city" =>
          /\ (~tsunamiActive /\ tsunamiActive') =>
                /\ pc = "forEach" /\ isPresenting /\ kind' \in {"stick", "malformed"}
                /\ ~triggerPressed /\ triggerPressed'
                /\ waterVisible'
          /\ tsunamiActive => tsunamiActive'
          /\ waterVisible' # waterVisible => (~tsunamiActive /\ tsunamiActive')
          /\ waterVisible => waterVisible']_vars

\* the trigger has started the tsunami in the first frame; in the second the
\* water has risen one step, one source, walking ahead, has let the trigger
\* go and another has pressed it again
C26_PressedAgain ==
    /\ scene = "city" /\ pc = "forEach" /\ frame = 1 /\ pending = 0
    /\ tsunamiActive /\ waterVisible /\ waterLevel = waterStart + riseSpeed
    /\ moves = 1 /\ steps = 1 /\ rig.x = -390 /\ rig.z = 1100
    /\ moveDir = NoVec /\ triggerPressed

\* C27: in the city scene waterLevel never exceeds maxWaterLevel (8).
C27_WaterBelowMax ==
    scene = "city" => waterLevel <= 8000

\* C28: once the tsunami is active, in a session that keeps presenting and
\* whose frames keep coming, waterLevel eventually reaches at least
\* maxWaterLevel (8); and a step that starts with waterLevel at 8 or more
\* changes neither waterLevel nor the water mesh's height.
C28_ReachesMaxAndStays ==
    /\ (tsunamiActive ~> waterLevel >= 8000)
    /\ [][waterLevel >= 8000 => (waterLevel' = waterLevel /\ waterY' = waterY)]_vars

\* the water, started by the trigger in the first frame, has reached its
\* last level and a further frame has left it there
C28_FullAndStill ==
    /\ scene = "city" /\ pc = "idle" /\ frame > 668
    /\ tsunamiActive /\ waterLevel >= 8000 /\ waterY = waterLevel + 2500

\* C29: in the city scene the water mesh's y is waterLevel + 2.5 in every
\* state; waterLevel never decreases; and waterLevel and the mesh's y change
\* only where a frame begins that is presenting and finds tsunamiActive true,
\* so a frame that is not presenting, or that begins with tsunamiActive
\* false, leaves both as they were.
C29_WaterFrozenUnlessRising ==
    /\ [](scene = "city" => waterY = waterLevel + 2500)
    /\ [][scene = "city" =>
             /\ waterLevel' >= waterLevel
             /\ (waterLevel' # waterLevel \/ waterY' # waterY) =>
                   (pc = "idle" /\ pc' = "forEach" /\ isPresenting' /\ tsunamiActive)]_vars

\* the second frame, which is not presenting, is under way: the tsunami,
\* started in the first, is active and the water has not risen
C29_ActiveButNotPresenting ==
    /\ scene = "city" /\ pc = "forEach" /\ frame = 1 /\ ~isPresenting
    /\ tsunamiActive /\ waterLevel = waterStart /\ waterY = waterStart + 2500

\* C30: in the city scene the footstep sound is played (lastFootstepTime is
\* set to the frame's time and the sound starts) only in a callback
\* invocation of a presenting frame whose left stick is outside the deadzone,
\* with the audio buffer loaded and more than 400 ms after the previous play;
\* the sound starts in no other step and never plays without its buffer.
C30_FootstepRateLimit ==
    [][scene = "city" =>
          /\ lastFootstepTime' # lastFootstepTime =>
                /\ pc = "forEach" /\ isPresenting /\ kind' = "stick"
                /\ stick' # NoStick
                /\ (Abs(stick'.x) > 150 \/ Abs(stick'.y) > 150)
                /\ audioBuffer = "loaded"
                /\ now - lastFootstepTime > 400
                /\ lastFootstepTime' = now /\ isPlaying'
          /\ (~isPlaying /\ isPlaying') => lastFootstepTime' # lastFootstepTime
          /\ audioBuffer # "loaded" => (~isPlaying /\ ~isPlaying')]_vars

\* the sound was played in the first frame; the second frame, exactly 400 ms
\* later, has moved the rig with the buffer loaded and has not played it again
C30_TooSoonToPlay ==
    /\ scene = "city" /\ pc = "forEach" /\ frame = 1 /\ steps = 1
    /\ audioBuffer = "loaded" /\ movingThisFrame
    /\ lastFootstepTime = StartTime + 400 /\ now = lastFootstepTime + 400

====
